---- MODULE Spec2Model ----
(***************************************************************************)
(* A model of rand's distributions::uniform: the Uniform facade and its    *)
(* back-ends UniformInt, UniformFloat and UniformDuration.                 *)
(*                                                                         *)
(* Machine integers are modelled at reduced widths (Bits8 < Bits16 <       *)
(* Bits32 < Bits64 stand for 8, 16, 32 and 64 bits) so that every raw draw *)
(* of the bit source can be enumerated; all arithmetic wraps at the        *)
(* modelled width exactly where the code's arithmetic wraps.               *)
(***************************************************************************)
EXTENDS Integers, FiniteSets

VARIABLES pc, call, sampler, draws, part, result

vars == <<pc, call, sampler, draws, part, result>>

(***************************************************************************)
(* Bounds of the model: the widths of the integer types, the raw draws    *)
(* one call may make, the fraction bits and the largest exponent of the    *)
(* float types, the nanoseconds in a second, and how far from 0 and from   *)
(* the u64 maximum the seconds of a Duration bound may lie.                *)
(***************************************************************************)
Bits8 == 3
Bits16 == 4
Bits32 == 5
Bits64 == 6
MaxDraws == 3
FracBits32 == 2
FracBits64 == 3
FloatMaxExp == 3
NanosPerSec == 3
MaxDurSecsIn == 1

(***************************************************************************)
(* Integer types: the instantiations of uniform_int_impl!.                 *)
(* i64, u64, isize, usize, i128 and u128 instantiate the macro as i32 and  *)
(* u32 do, working at their own width; of these, u64 is used below by the  *)
(* Duration back-end.                                                      *)
(***************************************************************************)
NarrowTypes == {"i8", "u8", "i16", "u16"}
WideTypes == {"i32", "u32"}
IntTypes == NarrowTypes \cup WideTypes

Signed(ty) == ty \in {"i8", "i16", "i32", "i64"}

Bits(ty) ==
    CASE ty \in {"i8", "u8"} -> Bits8
      [] ty \in {"i16", "u16"} -> Bits16
      [] ty \in {"i32", "u32"} -> Bits32
      [] ty \in {"i64", "u64"} -> Bits64

\* $u_large / $i_large of the macro: the 8-, 16- and 32-bit types work in
\* 32 bits, the 64-bit types in 64.
LargeBits(ty) ==
    IF ty \in {"i64", "u64"} THEN Bits64 ELSE Bits32

Pow2(n) == 2 ^ n

TyMin(ty) == IF Signed(ty) THEN 0 - Pow2(Bits(ty) - 1) ELSE 0
TyMax(ty) == IF Signed(ty) THEN Pow2(Bits(ty) - 1) - 1 ELSE Pow2(Bits(ty)) - 1
TyValues(ty) == TyMin(ty) .. TyMax(ty)

\* ::core::$unsigned::MAX and ::core::$u_large::MAX
UnsignedMax(ty) == Pow2(Bits(ty)) - 1
LargeMax(ty) == Pow2(LargeBits(ty)) - 1

\* The values one rng.gen::<$u_large>() can return.
Raw(ty) == 0 .. LargeMax(ty)

(***************************************************************************)
(* Casts between bit-equal types and wrapping arithmetic.                  *)
(***************************************************************************)
\* x as $unsigned: the bit pattern of x read as an unsigned number
AsUnsigned(bits, x) == x % Pow2(bits)

\* u as $signed: the bit pattern of u read in two's complement
AsSigned(bits, u) ==
    LET b == u % Pow2(bits)
    IN  IF b >= Pow2(bits - 1) THEN b - Pow2(bits) ELSE b

\* u as $ty
AsTy(ty, u) ==
    IF Signed(ty) THEN AsSigned(Bits(ty), u) ELSE AsUnsigned(Bits(ty), u)

\* a.wrapping_sub(b), a.wrapping_add(b) on $ty
WrappingSub(ty, a, b) == AsTy(ty, a - b)
WrappingAdd(ty, a, b) == AsTy(ty, a + b)

\* v.wmul(range) on $u_large: (hi, lo) of the double-width product
Wmul(ty, v, range) ==
    [hi |-> (v * range) \div Pow2(LargeBits(ty)),
     lo |-> (v * range) % Pow2(LargeBits(ty))]

\* range.leading_zeros() on $u_large, range > 0
RECURSIVE LeadingZeros(_, _)
LeadingZeros(bits, x) ==
    IF x >= Pow2(bits - 1) THEN 0 ELSE 1 + LeadingZeros(bits - 1, x)

(***************************************************************************)
(* UniformInt: the integer back-end.                                       *)
(***************************************************************************)
NoSampler == [kind |-> "none"]
Panic == [kind |-> "panic"]

\* A faulty ints_to_reject: nothing is rejected.
IntsToReject_none(ty, range) == 0

\* A faulty ints_to_reject: the modulus is left out.
IntsToReject_unreduced(ty, range) ==
    IF range > 0
    THEN UnsignedMax(ty) - range + 1
    ELSE 0

IntsToReject(ty, range) ==
    IF range > 0
    THEN (UnsignedMax(ty) - range + 1) % range
    ELSE 0

\* A faulty new_inclusive: the range is high - low, without the + 1.
UniformInt_new_inclusive_open(ty, low, high) ==
    IF ~(low <= high) THEN Panic
    ELSE
      LET unsigned_max == UnsignedMax(ty)
          range == AsUnsigned(Bits(ty), WrappingSub(ty, high, low))
          ints_to_reject == IntsToReject(ty, range)
          zone == unsigned_max - ints_to_reject
      IN  [kind |-> "int", ty |-> ty, low |-> low,
           range |-> AsTy(ty, range), zone |-> AsTy(ty, zone)]

UniformInt_new_inclusive(ty, low, high) ==
    IF ~(low <= high) THEN Panic
    ELSE
      LET unsigned_max == UnsignedMax(ty)
          range == AsUnsigned(Bits(ty), WrappingSub(ty, high, low) + 1)
          ints_to_reject == IntsToReject(ty, range)
          zone == unsigned_max - ints_to_reject
      IN  [kind |-> "int", ty |-> ty, low |-> low,
           range |-> AsTy(ty, range), zone |-> AsTy(ty, zone)]

\* A faulty new: the upper bound is not decremented.
UniformInt_new_off_by_one(ty, low, high) ==
    IF ~(low < high) THEN Panic
    ELSE UniformInt_new_inclusive(ty, low, high)

UniformInt_new(ty, low, high) ==
    IF ~(low < high) THEN Panic
    ELSE UniformInt_new_inclusive(ty, low, high - 1)

\* self.range as $unsigned as $u_large
SampleRange(s) == AsUnsigned(Bits(s.ty), s.range)

\* A faulty zone: zero extension instead of sign extension.
SampleZone_zero_extended(s) == AsUnsigned(Bits(s.ty), s.zone)

\* self.zone as $signed as $i_large as $u_large: sign extension
SampleZone(s) ==
    AsUnsigned(LargeBits(s.ty), AsSigned(Bits(s.ty), s.zone))

\* One pass of the loop of sample on the raw draw v (range > 0), or the
\* single draw of the full-range branch (range = 0).
\* [ok |-> TRUE, val |-> the value returned] or [ok |-> FALSE] (redraw).
UniformInt_sample(s, v) ==
    LET range == SampleRange(s)
    IN  IF range > 0
        THEN LET zone == SampleZone(s)
                 w == Wmul(s.ty, v, range)
             IN  IF w.lo <= zone
                 THEN [ok |-> TRUE, val |-> WrappingAdd(s.ty, s.low, AsTy(s.ty, w.hi))]
                 ELSE [ok |-> FALSE, val |-> 0]
        ELSE [ok |-> TRUE, val |-> AsTy(s.ty, v)]

\* range and zone of sample_single
\* A faulty range of sample_single: the range of the closed span.
SingleRange_inclusive(ty, low, high) ==
    AsUnsigned(Bits(ty), WrappingSub(ty, high, low) + 1)

SingleRange(ty, low, high) ==
    AsUnsigned(Bits(ty), WrappingSub(ty, high, low))

\* A faulty zone of sample_single: the range is not shifted.
SingleZone_unshifted(ty, range) ==
    IF UnsignedMax(ty) <= (Pow2(Bits16) - 1) % Pow2(Bits(ty))
    THEN LET unsigned_max == LargeMax(ty)
             ints_to_reject == (unsigned_max - range + 1) % range
         IN  unsigned_max - ints_to_reject
    ELSE range

SingleZone(ty, range) ==
    IF UnsignedMax(ty) <= (Pow2(Bits16) - 1) % Pow2(Bits(ty))
    THEN LET unsigned_max == LargeMax(ty)
             ints_to_reject == (unsigned_max - range + 1) % range
         IN  unsigned_max - ints_to_reject
    ELSE (range * Pow2(LeadingZeros(LargeBits(ty), range))) % Pow2(LargeBits(ty))

\* The divisors of the moduli new_inclusive(low, high) evaluates: the one of
\* ints_to_reject, under its guard range > 0.
NewDivisors(ty, low, high) ==
    LET range == AsUnsigned(Bits(ty), WrappingSub(ty, high, low) + 1)
    IN  IF range > 0 THEN {range} ELSE {}

\* The divisors of the moduli sample_single(low, high) evaluates: the one of
\* the exact zone of the 8- and 16-bit types, which has no guard.
SingleDivisors(ty, low, high) ==
    IF UnsignedMax(ty) <= (Pow2(Bits16) - 1) % Pow2(Bits(ty))
    THEN {SingleRange(ty, low, high)}
    ELSE {}

\* A faulty sample_single: the halves of the product are taken in the
\* wrong order, and the low half is added to low.
UniformInt_sample_single_swapped(ty, low, high, v) ==
    LET range == SingleRange(ty, low, high)
        zone == SingleZone(ty, range)
        w == Wmul(ty, v, range)
    IN  IF w.lo <= zone
        THEN [ok |-> TRUE, val |-> WrappingAdd(ty, low, AsTy(ty, w.lo))]
        ELSE [ok |-> FALSE, val |-> 0]

\* One pass of the loop of sample_single on the raw draw v.
UniformInt_sample_single(ty, low, high, v) ==
    LET range == SingleRange(ty, low, high)
        zone == SingleZone(ty, range)
        w == Wmul(ty, v, range)
    IN  IF w.lo <= zone
        THEN [ok |-> TRUE, val |-> WrappingAdd(ty, low, AsTy(ty, w.hi))]
        ELSE [ok |-> FALSE, val |-> 0]

(***************************************************************************)
(* Floating point.  A float is a finite number n counted in units of the    *)
(* smallest subnormal, an infinity (n = 1 or -1) or NaN.  A finite n is    *)
(* representable when its magnitude has at most FracBits + 1 significant   *)
(* bits and an exponent of at most FloatMaxExp; every operation rounds to  *)
(* nearest, ties to even, and overflows to an infinity, as IEEE 754 does.  *)
(***************************************************************************)
FloatTypes == {"f32", "f64"}

FracBits(ty) == IF ty = "f32" THEN FracBits32 ELSE FracBits64

\* The width of the raw draw: $uty of uniform_float_impl!
FloatRawBits(ty) == IF ty = "f32" THEN Bits32 ELSE Bits64

Fin(n) == [k |-> "fin", n |-> n]
Inf(sign) == [k |-> "inf", n |-> sign]
NaN == [k |-> "nan", n |-> 0]

Abs(n) == IF n < 0 THEN 0 - n ELSE n
Sgn(n) == IF n < 0 THEN 0 - 1 ELSE 1

MaxFinite(ty) == (Pow2(FracBits(ty) + 1) - 1) * Pow2(FloatMaxExp)

\* The exponent of the binade of the magnitude a / den: the least e >= 0
\* with a / den < 2^(FracBits + 1 + e).
RECURSIVE Binade(_, _, _, _)
Binade(ty, a, den, e) ==
    IF a < Pow2(FracBits(ty) + 1 + e) * den \/ e > FloatMaxExp
    THEN e
    ELSE Binade(ty, a, den, e + 1)

\* num / den rounded to the nearest float of type ty, ties to even.
Round(ty, num, den) ==
    LET a == Abs(num)
        s == Pow2(Binade(ty, a, den, 0)) * den
        q == a \div s
        r == a % s
        up == IF 2 * r > s THEN 1
              ELSE IF 2 * r = s THEN q % 2
              ELSE 0
        mag == (q + up) * (s \div den)
    IN  IF mag > MaxFinite(ty) THEN Inf(Sgn(num)) ELSE Fin(Sgn(num) * mag)

FNeg(a) == [a EXCEPT !.n = 0 - a.n]

FAdd(ty, a, b) ==
    IF a.k = "nan" \/ b.k = "nan" THEN NaN
    ELSE IF a.k = "inf"
         THEN IF b.k = "inf" /\ b.n # a.n THEN NaN ELSE a
    ELSE IF b.k = "inf" THEN b
    ELSE Round(ty, a.n + b.n, 1)

FSub(ty, a, b) == FAdd(ty, a, FNeg(b))

\* Comparisons: every comparison with NaN is false.
FLt(a, b) ==
    /\ a.k # "nan"
    /\ b.k # "nan"
    /\ \/ a.k = "fin" /\ b.k = "fin" /\ a.n < b.n
       \/ a.k = "inf" /\ a.n < 0 /\ ~(b.k = "inf" /\ b.n < 0)
       \/ b.k = "inf" /\ b.n > 0 /\ ~(a.k = "inf" /\ a.n > 0)

FEq(a, b) == a.k # "nan" /\ b.k # "nan" /\ a = b

FLe(a, b) == FLt(a, b) \/ FEq(a, b)

Representable(ty, n) ==
    Round(ty, n, 1) = Fin(n)

\* The finite values of the type: the bounds a caller can pass.
FloatValues(ty) ==
    {Fin(n) : n \in {m \in (0 - MaxFinite(ty)) .. MaxFinite(ty) : Representable(ty, m)}}

\* rng.gen::<$uty>() >> $bits_to_discard: the fraction bits of value1_2
FractionOf(ty, v) == v \div Pow2(FloatRawBits(ty) - FracBits(ty))

\* value.into_float_with_exponent(0) * scale: value1_2 is
\* (2^FracBits + fraction) / 2^FracBits, in [1, 2), and the product is rounded.
MulValue1_2(ty, fraction, scale) ==
    IF scale.k = "fin"
    THEN Round(ty, (Pow2(FracBits(ty)) + fraction) * scale.n, Pow2(FracBits(ty)))
    ELSE scale

(***************************************************************************)
(* UniformFloat: the floating-point back-end.                              *)
(***************************************************************************)
\* A faulty new: the assert of new_inclusive.
UniformFloat_new_le(ty, low, high) ==
    IF ~FLe(low, high) THEN Panic
    ELSE
      LET scale == FSub(ty, high, low)
          offset == FSub(ty, low, scale)
      IN  [kind |-> "float", ty |-> ty, scale |-> scale, offset |-> offset]

UniformFloat_new(ty, low, high) ==
    IF ~FLt(low, high) THEN Panic
    ELSE
      LET scale == FSub(ty, high, low)
          offset == FSub(ty, low, scale)
      IN  [kind |-> "float", ty |-> ty, scale |-> scale, offset |-> offset]

UniformFloat_new_inclusive(ty, low, high) ==
    IF ~FLe(low, high) THEN Panic
    ELSE
      LET scale == FSub(ty, high, low)
          offset == FSub(ty, low, scale)
      IN  [kind |-> "float", ty |-> ty, scale |-> scale, offset |-> offset]

\* value1_2 * self.scale + self.offset on the raw draw v
UniformFloat_sample(s, v) ==
    FAdd(s.ty, MulValue1_2(s.ty, FractionOf(s.ty, v), s.scale), s.offset)

\* sample_single past its assert, on the raw draw v
UniformFloat_sample_single(ty, low, high, v) ==
    LET scale == FSub(ty, high, low)
        offset == FSub(ty, low, scale)
    IN  FAdd(ty, MulValue1_2(ty, FractionOf(ty, v), scale), offset)

(***************************************************************************)
(* std::time::Duration: whole seconds in a u64 and nanoseconds below       *)
(* NanosPerSec.                                                            *)
(***************************************************************************)
U64Max == Pow2(Bits64) - 1

Duration_new(secs, nanos) == [secs |-> secs, nanos |-> nanos]

DurLt(a, b) == a.secs < b.secs \/ (a.secs = b.secs /\ a.nanos < b.nanos)
DurLe(a, b) == DurLt(a, b) \/ a = b

\* a - b for b <= a
DurSub(a, b) ==
    IF a.nanos >= b.nanos
    THEN Duration_new(a.secs - b.secs, a.nanos - b.nanos)
    ELSE Duration_new(a.secs - b.secs - 1, a.nanos + NanosPerSec - b.nanos)

\* a + b, which panics when the seconds overflow the u64
DurAdd(a, b) ==
    LET carry == IF a.nanos + b.nanos >= NanosPerSec THEN 1 ELSE 0
        secs == a.secs + b.secs + carry
    IN  IF secs > U64Max
        THEN Panic
        ELSE [kind |-> "ok",
              val |-> Duration_new(secs, a.nanos + b.nanos - carry * NanosPerSec)]

\* The durations a caller passes: the seconds near both ends of the u64.
DurSecsIn == (0 .. MaxDurSecsIn) \cup ((U64Max - MaxDurSecsIn) .. U64Max)
DurValues == {Duration_new(s, n) : s \in DurSecsIn, n \in 0 .. (NanosPerSec - 1)}

(***************************************************************************)
(* UniformDuration: the Duration back-end.                                 *)
(***************************************************************************)
\* size.as_secs().checked_mul(1_000_000_000)
\*     .and_then(|n| n.checked_add(size.subsec_nanos() as u64))
\* -1 stands for None.
CheckedNanos(size) ==
    IF size.secs * NanosPerSec > U64Max THEN 0 - 1
    ELSE IF size.secs * NanosPerSec + size.nanos > U64Max THEN 0 - 1
    ELSE size.secs * NanosPerSec + size.nanos

UniformDuration_new_inclusive(low, high) ==
    IF ~DurLe(low, high) THEN Panic
    ELSE
      LET size == DurSub(high, low)
          nanos == CheckedNanos(size)
      IN  IF nanos >= 0
          THEN [kind |-> "duration", offset |-> low, mode |-> "Small",
                nanos |-> UniformInt_new_inclusive("u64", 0, nanos)]
          ELSE [kind |-> "duration", offset |-> low, mode |-> "Large",
                size |-> size,
                secs |-> UniformInt_new_inclusive("u64", 0, size.secs)]

UniformDuration_new(low, high) ==
    IF ~DurLt(low, high) THEN Panic
    ELSE UniformDuration_new_inclusive(low, DurSub(high, Duration_new(0, 1)))

\* Uniform::new(0, 1_000_000_000), the sampler of the nanoseconds
NanoRange == UniformInt_new("u32", 0, NanosPerSec)

\* A faulty test of the Large mode loop: every candidate is accepted.
LargeAccept_always(d, size) == TRUE

\* Large mode: the test d <= size that ends the loop
\* A faulty test of the Large mode loop: the comparison is inverted.
LargeAccept_inverted(d, size) == DurLt(size, d)

LargeAccept(d, size) == DurLe(d, size)

\* Small mode: the duration of the merged count, then self.offset + d
SmallValue(s, nanos) ==
    DurAdd(s.offset, Duration_new(nanos \div NanosPerSec, nanos % NanosPerSec))

(***************************************************************************)
(* A user-defined back-end whose constructors perform no check: the trait  *)
(* UniformSampler requires none.                                           *)
(***************************************************************************)
Unchecked_new(low, high) == [kind |-> "custom", low |-> low, high |-> high]

(***************************************************************************)
(* Uniform: the facade.  X::Sampler is chosen by the type.                 *)
(***************************************************************************)
Backends == {"int", "float", "duration", "custom"}

TypesOf(b) ==
    CASE b = "int" -> IntTypes
      [] b = "float" -> FloatTypes
      [] b = "duration" -> {"Duration"}
      [] b = "custom" -> {"MyType"}

ValuesOf(b, ty) ==
    CASE b = "int" -> TyValues(ty)
      [] b = "float" -> FloatValues(ty)
      [] b = "duration" -> DurValues
      [] b = "custom" -> TyValues("u8")

Sampler_new(b, ty, low, high) ==
    CASE b = "int" -> UniformInt_new(ty, low, high)
      [] b = "float" -> UniformFloat_new(ty, low, high)
      [] b = "duration" -> UniformDuration_new(low, high)
      [] b = "custom" -> Unchecked_new(low, high)

Sampler_new_inclusive(b, ty, low, high) ==
    CASE b = "int" -> UniformInt_new_inclusive(ty, low, high)
      [] b = "float" -> UniformFloat_new_inclusive(ty, low, high)
      [] b = "duration" -> UniformDuration_new_inclusive(low, high)
      [] b = "custom" -> Unchecked_new(low, high)

Uniform_new(b, ty, low, high) == Sampler_new(b, ty, low, high)

Uniform_new_inclusive(b, ty, low, high) == Sampler_new_inclusive(b, ty, low, high)

\* A faulty conversion: the range is taken as closed.
Uniform_from_inclusive(b, ty, start, end) == Uniform_new_inclusive(b, ty, start, end)

\* impl From<Range<X>> for Uniform<X>
Uniform_from(b, ty, start, end) == Uniform_new(b, ty, start, end)

(***************************************************************************)
(* State machine.                                                          *)
(*   pc      "start" (nothing built), "ready" (a sampler is built),        *)
(*           "sampling" (inside sample), "single" (inside sample_single),  *)
(*           "done" (a value was returned), "panicked" (an assert failed)  *)
(*   call    the constructor or one-shot call made, with its arguments     *)
(*   sampler the sampler built                                             *)
(*   draws   raw values drawn from the bit source by the current call      *)
(*   part    the seconds already sampled by a Large mode duration sample   *)
(*   result  the value returned                                            *)
(***************************************************************************)
NoCall == [op |-> "none", backend |-> "none", ty |-> "none", low |-> 0, high |-> 0]
NoPart == [at |-> "secs"]
NoResult == [some |-> FALSE]
Some(v) == [some |-> TRUE, val |-> v]

RawOf(bits) == 0 .. (Pow2(bits) - 1)

Init ==
    /\ pc = "start"
    /\ call = NoCall
    /\ sampler = NoSampler
    /\ draws = 0
    /\ part = NoPart
    /\ result = NoResult

Call(op, b, ty, low, high) ==
    [op |-> op, backend |-> b, ty |-> ty, low |-> low, high |-> high]

\* The outcome of a constructor: the sampler, or the panic of its assert.
Built(c, s) ==
    /\ call' = c
    /\ IF s.kind = "panic"
       THEN pc' = "panicked" /\ sampler' = NoSampler
       ELSE pc' = "ready" /\ sampler' = s
    /\ UNCHANGED <<draws, part, result>>

\* Uniform::new(low, high)
New(b) ==
    /\ pc = "start"
    /\ \E ty \in TypesOf(b) : \E low \in ValuesOf(b, ty), high \in ValuesOf(b, ty) :
        Built(Call("new", b, ty, low, high), Uniform_new(b, ty, low, high))

\* Uniform::new_inclusive(low, high)
NewInclusive(b) ==
    /\ pc = "start"
    /\ \E ty \in TypesOf(b) : \E low \in ValuesOf(b, ty), high \in ValuesOf(b, ty) :
        Built(Call("new_inclusive", b, ty, low, high),
              Uniform_new_inclusive(b, ty, low, high))

\* Uniform::from(low..high)
From(b) ==
    /\ pc = "start"
    /\ \E ty \in TypesOf(b) : \E low \in ValuesOf(b, ty), high \in ValuesOf(b, ty) :
        Built(Call("from", b, ty, low, high), Uniform_from(b, ty, low, high))

\* sample on an integer sampler: one raw draw and the test on it.
IntSampleDraw ==
    /\ pc \in {"ready", "sampling"}
    /\ sampler.kind = "int"
    /\ draws < MaxDraws
    /\ \E v \in Raw(sampler.ty) : \E r \in {UniformInt_sample(sampler, v)} :
         /\ draws' = draws + 1
         /\ IF r.ok
            THEN pc' = "done" /\ result' = Some(r.val)
            ELSE pc' = "sampling" /\ result' = NoResult
    /\ UNCHANGED <<call, sampler, part>>

\* A faulty assert: equal float bounds pass.
SampleSingleAssert_le(b, low, high) ==
    IF b = "int" THEN low < high ELSE FLe(low, high)

\* The assert at the start of sample_single of the integer and float back-ends.
SampleSingleAssert(b, low, high) ==
    IF b = "int" THEN low < high ELSE FLt(low, high)

SampleSingleCall(b) ==
    /\ pc = "start"
    /\ \E ty \in TypesOf(b) : \E low \in ValuesOf(b, ty), high \in ValuesOf(b, ty) :
         /\ call' = Call("sample_single", b, ty, low, high)
         /\ pc' = IF SampleSingleAssert(b, low, high) THEN "single" ELSE "panicked"
    /\ UNCHANGED <<sampler, draws, part, result>>

\* sample_single of a back-end that keeps the default of the trait, as
\* UniformDuration does: the sampler is built by new, then sampled once.
DefaultSampleSingle(b) ==
    /\ pc = "start"
    /\ \E ty \in TypesOf(b) : \E low \in ValuesOf(b, ty), high \in ValuesOf(b, ty) :
        Built(Call("sample_single", b, ty, low, high), Sampler_new(b, ty, low, high))

\* sample_single of an integer type: one raw draw and the test on it.
IntSingleDraw ==
    /\ pc = "single"
    /\ call.backend = "int"
    /\ draws < MaxDraws
    /\ \E v \in Raw(call.ty) :
       \E r \in {UniformInt_sample_single(call.ty, call.low, call.high, v)} :
         /\ draws' = draws + 1
         /\ IF r.ok
            THEN pc' = "done" /\ result' = Some(r.val)
            ELSE pc' = "single" /\ result' = NoResult
    /\ UNCHANGED <<call, sampler, part>>

\* A faulty float sample: two raw values are drawn for one value.
FloatSample_two_draws ==
    /\ pc = "ready"
    /\ sampler.kind = "float"
    /\ \E v \in RawOf(FloatRawBits(sampler.ty)) :
         /\ draws' = draws + 2
         /\ pc' = "done"
         /\ result' = Some(UniformFloat_sample(sampler, v))
    /\ UNCHANGED <<call, sampler, part>>

\* sample on a float sampler: one raw draw, no loop.
FloatSample ==
    /\ pc = "ready"
    /\ sampler.kind = "float"
    /\ \E v \in RawOf(FloatRawBits(sampler.ty)) :
         /\ draws' = draws + 1
         /\ pc' = "done"
         /\ result' = Some(UniformFloat_sample(sampler, v))
    /\ UNCHANGED <<call, sampler, part>>

\* sample_single of a float type past its assert.
FloatSingleDraw ==
    /\ pc = "single"
    /\ call.backend = "float"
    /\ \E v \in RawOf(FloatRawBits(call.ty)) :
         /\ draws' = draws + 1
         /\ pc' = "done"
         /\ result' = Some(UniformFloat_sample_single(call.ty, call.low, call.high, v))
    /\ UNCHANGED <<call, sampler, part>>

\* The end of a duration sample: self.offset + d returns or panics.
DurReturn(sum) ==
    IF sum.kind = "panic"
    THEN pc' = "panicked" /\ result' = NoResult
    ELSE pc' = "done" /\ result' = Some(sum.val)

\* sample on a Small mode duration sampler: one draw of nanos.sample.
DurSampleSmall ==
    /\ pc \in {"ready", "sampling"}
    /\ sampler.kind = "duration"
    /\ sampler.mode = "Small"
    /\ draws < MaxDraws
    /\ \E v \in Raw("u64") : \E r \in {UniformInt_sample(sampler.nanos, v)} :
         /\ draws' = draws + 1
         /\ IF r.ok
            THEN DurReturn(SmallValue(sampler, r.val))
            ELSE pc' = "sampling" /\ result' = NoResult
    /\ UNCHANGED <<call, sampler, part>>

\* sample on a Large mode duration sampler: one draw of secs.sample.
DurSampleSecs ==
    /\ pc \in {"ready", "sampling"}
    /\ sampler.kind = "duration"
    /\ sampler.mode = "Large"
    /\ part.at = "secs"
    /\ draws < MaxDraws
    /\ \E v \in Raw("u64") : \E r \in {UniformInt_sample(sampler.secs, v)} :
         /\ draws' = draws + 1
         /\ pc' = "sampling"
         /\ part' = IF r.ok THEN [at |-> "nanos", secs |-> r.val] ELSE part
    /\ UNCHANGED <<call, sampler, result>>

\* sample on a Large mode duration sampler: one draw of nano_range.sample,
\* and with it the test d <= size and self.offset + d.
DurSampleNanos ==
    /\ pc = "sampling"
    /\ sampler.kind = "duration"
    /\ sampler.mode = "Large"
    /\ part.at = "nanos"
    /\ draws < MaxDraws
    /\ \E v \in Raw("u32") : \E r \in {UniformInt_sample(NanoRange, v)} :
         /\ draws' = draws + 1
         /\ IF ~r.ok
            THEN pc' = "sampling" /\ result' = NoResult /\ part' = part
            ELSE LET d == Duration_new(part.secs, r.val)
                 IN  IF LargeAccept(d, sampler.size)
                     THEN DurReturn(DurAdd(sampler.offset, d)) /\ part' = NoPart
                     ELSE pc' = "sampling" /\ result' = NoResult /\ part' = NoPart
    /\ UNCHANGED <<call, sampler>>

\* The caller takes the value; the sampler, immutable, can be used again.
\* The sampler sample_single built for itself is dropped with the call.
Return ==
    /\ pc = "done"
    /\ sampler # NoSampler
    /\ call.op # "sample_single"
    /\ pc' = "ready"
    /\ draws' = 0
    /\ result' = NoResult
    /\ UNCHANGED <<call, sampler, part>>

\* The integer back-end.
NextInt ==
    \/ New("int")
    \/ NewInclusive("int")
    \/ IntSampleDraw
    \/ SampleSingleCall("int")
    \/ IntSingleDraw
    \/ Return

\* The float back-end.
NextFloat ==
    \/ New("float")
    \/ NewInclusive("float")
    \/ FloatSample
    \/ SampleSingleCall("float")
    \/ FloatSingleDraw
    \/ Return

\* The Duration back-end.
NextDuration ==
    \/ New("duration")
    \/ NewInclusive("duration")
    \/ DurSampleSmall
    \/ DurSampleSecs
    \/ DurSampleNanos
    \/ Return

\* The constructors of every back-end, through the facade.
NextNew ==
    \E b \in Backends :
        \/ New(b)
        \/ NewInclusive(b)
        \/ From(b)

\* The one-shot calls of every back-end.
NextSingle ==
    \/ SampleSingleCall("int")
    \/ SampleSingleCall("float")
    \/ DefaultSampleSingle("duration")
    \/ IntSingleDraw
    \/ FloatSingleDraw
    \/ DurSampleSmall
    \/ DurSampleSecs
    \/ DurSampleNanos

Next ==
    \/ NextInt
    \/ NextFloat
    \/ NextDuration
    \/ NextNew
    \/ NextSingle

Spec == Init /\ [][Next]_vars
SpecInt == Init /\ [][NextInt]_vars
SpecFloat == Init /\ [][NextFloat]_vars
SpecDuration == Init /\ [][NextDuration]_vars
SpecNew == Init /\ [][NextNew]_vars
SpecSingle == Init /\ [][NextSingle]_vars

\* The back-ends whose sample has a rejection loop.
NextLoops == NextInt \/ NextDuration
SpecLoops == Init /\ [][NextLoops]_vars

\* sample on the samplers of every back-end.
NextSample ==
    \/ New("int")
    \/ NewInclusive("int")
    \/ New("float")
    \/ New("duration")
    \/ IntSampleDraw
    \/ FloatSample
    \/ DurSampleSmall
    \/ DurSampleSecs
    \/ DurSampleNanos
    \/ Return
SpecSample == Init /\ [][NextSample]_vars

(***************************************************************************)
(* Properties.                                                             *)
(***************************************************************************)
IntDone(op) == pc = "done" /\ call.backend = "int" /\ call.op = op

\* C1: every value sample returns on the sampler built by new(low, high)
\* satisfies low <= v < high, and on the sampler built by
\* new_inclusive(low, high) low <= v <= high, for every integer type and
\* every sequence of raw draws, the pair (type minimum, type maximum) included.
C1_IntSampleInBounds ==
    /\ IntDone("new") =>
         call.low <= result.val /\ result.val < call.high
    /\ IntDone("new_inclusive") =>
         call.low <= result.val /\ result.val <= call.high

\* A narrow type over (minimum, maximum): the top value of the half-open
\* range is returned after one redraw.
C1_Witness ==
    /\ IntDone("new")
    /\ call.ty = "i8"
    /\ call.low = TyMin("i8")
    /\ call.high = TyMax("i8")
    /\ result.val = TyMax("i8") - 1
    /\ draws = 2

\* The raw draws sample accepts and maps to x.
Accepted(s, x) ==
    {v \in Raw(s.ty) : LET r == UniformInt_sample(s, v) IN r.ok /\ r.val = x}

\* Every value of [low, high] is returned for the same number of raw draws.
EquallyLikely(s, low, high) ==
    LET n == Cardinality(Accepted(s, low))
    IN  /\ n > 0
        /\ \A x \in low .. high : Cardinality(Accepted(s, x)) = n

IntReady(op) == pc = "ready" /\ call.backend = "int" /\ call.op = op

\* C2: for the integer types whose raw draw has the width of the type, the
\* sampler built by new_inclusive(low, high) returns each value of
\* [low, high] for exactly the same number of accepted raw draws.
C2_WideEquallyLikely ==
    (IntReady("new_inclusive") /\ call.ty \in WideTypes) =>
        EquallyLikely(sampler, call.low, call.high)

\* A wide sampler over three values: some raw draws are rejected.
C2_Witness ==
    /\ IntReady("new_inclusive")
    /\ call.ty = "u32"
    /\ call.low = 2
    /\ call.high = 4
    /\ \E v \in Raw("u32") : ~UniformInt_sample(sampler, v).ok

\* C3: for the 8- and 16-bit types, whose zone is sign-extended to the width
\* of the raw draw, the sampler built by new_inclusive(low, high) returns
\* each value of [low, high] for exactly the same number of accepted raw
\* draws.
C3_NarrowEquallyLikely ==
    (IntReady("new_inclusive") /\ call.ty \in NarrowTypes) =>
        EquallyLikely(sampler, call.low, call.high)

\* C6: the sampler built by new_inclusive(x, x) has range 1, accepts every
\* raw draw (the high half of the product is 0 and the low half is at most
\* zone), and returns x on its first draw.
C6_SingleValue ==
    (call.backend = "int" /\ call.op = "new_inclusive" /\ call.low = call.high
       /\ pc # "panicked") =>
        /\ SampleRange(sampler) = 1
        /\ \A v \in Raw(call.ty) :
             /\ Wmul(call.ty, v, SampleRange(sampler)).hi = 0
             /\ Wmul(call.ty, v, SampleRange(sampler)).lo <= SampleZone(sampler)
        /\ pc # "sampling"
        /\ pc = "done" => (result.val = call.low /\ draws = 1)

\* new_inclusive(x, x) on a narrow type has returned x.
C6_Witness ==
    /\ IntDone("new_inclusive")
    /\ call.ty = "i8"
    /\ call.low = TyMin("i8")
    /\ call.high = TyMin("i8")
    /\ result.val = TyMin("i8")

\* C8: every value sample_single(low, high, source) returns satisfies
\* low <= v < high, for every integer type, on the exact modulus zone of the
\* 8- and 16-bit types and on the shifted zone of the wider types.
C8_SampleSingleInBounds ==
    IntDone("sample_single") =>
        call.low <= result.val /\ result.val < call.high

\* sample_single on a wide type returns the top value after a redraw.
C8_Witness ==
    /\ IntDone("sample_single")
    /\ call.ty = "i32"
    /\ call.low = TyMin("i32")
    /\ call.high = TyMin("i32") + 3
    /\ result.val = TyMin("i32") + 2
    /\ draws = 2

\* low < high and low <= high as the back-end of the call compares them.
BoundsLt(c) ==
    CASE c.backend = "float" -> FLt(c.low, c.high)
      [] c.backend = "duration" -> DurLt(c.low, c.high)
      [] OTHER -> c.low < c.high

BoundsLe(c) ==
    CASE c.backend = "float" -> FLe(c.low, c.high)
      [] c.backend = "duration" -> DurLe(c.low, c.high)
      [] OTHER -> c.low <= c.high

\* The call failed: no sampler was produced.
Failed == pc = "panicked" /\ sampler = NoSampler

\* C4: on the integer, float and Duration back-ends new(low, high) fails,
\* producing no sampler, when low == high and when low > high, and
\* new_inclusive(low, high) fails when low > high; a sampler that is built
\* keeps the lower bound it was given.
C4_InvalidBoundsFail ==
    call.backend \in {"int", "float", "duration"} =>
        /\ (call.op = "new" /\ ~BoundsLt(call)) => Failed
        /\ (call.op = "new_inclusive" /\ ~BoundsLe(call)) => Failed
        /\ (pc = "ready" /\ call.backend = "int") => sampler.low = call.low
        /\ (pc = "ready" /\ call.backend = "duration") => sampler.offset = call.low

\* new on equal float bounds has failed.
C4_Witness ==
    /\ Failed
    /\ call.op = "new"
    /\ call.backend = "float"
    /\ call.low = call.high

\* C5: whatever the back-end, a user-defined one without checks included,
\* Uniform::new fails when low >= high and Uniform::new_inclusive fails when
\* low > high.
C5_FacadeValidates ==
    /\ (call.op = "new" /\ ~BoundsLt(call)) => Failed
    /\ (call.op = "new_inclusive" /\ ~BoundsLe(call)) => Failed

\* C7: every value sample returns on the Duration sampler built by
\* new(low, high) satisfies low <= v < high, in Small and in Large mode, and
\* the addition self.offset + d never overflows.
C7_DurationSampleInBounds ==
    (call.backend = "duration" /\ call.op = "new") =>
        /\ pc = "done" => (DurLe(call.low, result.val) /\ DurLt(result.val, call.high))
        /\ pc = "panicked" => ~DurLt(call.low, call.high)

\* The sampler over (zero, maximum duration), in Large mode, has returned
\* the largest duration below the maximum.
C7_Witness ==
    /\ pc = "done"
    /\ call.backend = "duration"
    /\ call.op = "new"
    /\ sampler.mode = "Large"
    /\ call.low = Duration_new(0, 0)
    /\ call.high = Duration_new(U64Max, NanosPerSec - 1)
    /\ result.val = Duration_new(U64Max, NanosPerSec - 2)

\* C9: the sampler converted from the range low..high is the sampler of
\* Uniform::new(low, high): for integers its floor is low and its range is
\* high - low; for floats its scale is high - low and its offset low - scale.
C9_FromRange ==
    (call.op = "from" /\ pc = "ready") =>
             /\ sampler = Uniform_new(call.backend, call.ty, call.low, call.high)
             /\ call.backend = "int" =>
                  /\ sampler.low = call.low
                  /\ SampleRange(sampler) = call.high - call.low
             /\ call.backend = "float" =>
                  /\ sampler.scale = FSub(call.ty, call.high, call.low)
                  /\ sampler.offset = FSub(call.ty, call.low, sampler.scale)

\* Uniform::from(2u32..7) has floor 2 and range 5.
C9_Witness ==
    /\ pc = "ready"
    /\ call.op = "from"
    /\ call.ty = "u32"
    /\ call.low = 2
    /\ call.high = 7
    /\ sampler.low = 2
    /\ sampler.range = 5

\* C10: every value sample returns on the float sampler built by
\* Uniform::new(low, high) satisfies low <= v < high.
C10_FloatSampleInBounds ==
    (pc = "done" /\ call.backend = "float" /\ call.op = "new") =>
        FLe(call.low, result.val) /\ FLt(result.val, call.high)

SingleAccepted(ty, low, high, x) ==
    {v \in Raw(ty) :
        LET r == UniformInt_sample_single(ty, low, high, v) IN r.ok /\ r.val = x}

\* Every value of [low, high) is returned by sample_single for the same
\* number of raw draws.
SingleEquallyLikely(ty, low, high) ==
    LET n == Cardinality(SingleAccepted(ty, low, high, low))
    IN  /\ n > 0
        /\ \A x \in low .. (high - 1) :
             Cardinality(SingleAccepted(ty, low, high, x)) = n

IntSingle == pc = "single" /\ call.backend = "int"

\* C12: for the integer types of 32 bits and wider, sample_single(low, high),
\* which accepts a draw when the low half of the widening product is at most
\* zone = range << leading_zeros(range), returns each value of [low, high)
\* for exactly the same number of accepted raw draws.
C12_SingleWideEquallyLikely ==
    (IntSingle /\ call.ty \in WideTypes) =>
        SingleEquallyLikely(call.ty, call.low, call.high)

\* The raw draws one pass of the loop of sample refuses.
Rejected(s) == {v \in Raw(s.ty) : ~UniformInt_sample(s, v).ok}

\* The raw draws one pass of the loop of sample_single refuses.
SingleRejected(ty, low, high) ==
    {v \in Raw(ty) : ~UniformInt_sample_single(ty, low, high, v).ok}

IntBuilt == pc = "ready" /\ call.backend = "int"

\* C13: for every valid bound pair of every integer type, strictly less than
\* half of the raw draws are refused (low half of the product above zone), by
\* sample on the sampler built and by sample_single on the exact zone of the
\* 8- and 16-bit types and on the shifted zone of the wider types.
C13_RejectedBelowHalf ==
    /\ IntBuilt =>
         2 * Cardinality(Rejected(sampler)) < Cardinality(Raw(call.ty))
    /\ IntSingle =>
         2 * Cardinality(SingleRejected(call.ty, call.low, call.high))
           < Cardinality(Raw(call.ty))

\* sample_single on a wide type over one value more than half of the type:
\* the shifted zone is the range itself and all but one of the rest of the
\* raw draws are refused.
C13_Witness ==
    /\ IntSingle
    /\ call.ty = "u32"
    /\ call.low = 0
    /\ call.high = Pow2(Bits32 - 1) + 1
    /\ Cardinality(SingleRejected(call.ty, call.low, call.high))
         = Pow2(Bits32 - 1) - 2

\* The upper bound of the closed span of the sampler built.
HighInclusive(c) == IF c.op = "new_inclusive" THEN c.high ELSE c.high - 1

\* C14: the stored range is 0 exactly when the closed span covers the whole
\* type and is the count of the span otherwise; a sampler of range 0 returns
\* its first raw draw unmodified and never loops; no constructor and no
\* sample_single call with valid bounds takes a modulus by zero.
C14_RangeSentinel ==
    /\ (call.backend = "int" /\ sampler # NoSampler) =>
         /\ SampleRange(sampler) =
              IF call.low = TyMin(call.ty) /\ HighInclusive(call) = TyMax(call.ty)
              THEN 0
              ELSE HighInclusive(call) - call.low + 1
         /\ 0 \notin NewDivisors(call.ty, call.low, HighInclusive(call))
         /\ SampleRange(sampler) = 0 =>
              /\ \A v \in Raw(call.ty) :
                   UniformInt_sample(sampler, v) = [ok |-> TRUE, val |-> AsTy(call.ty, v)]
              /\ pc # "sampling"
              /\ pc = "done" => draws = 1
    /\ IntSingle =>
         0 \notin SingleDivisors(call.ty, call.low, call.high)

\* The sampler over a whole signed type has range 0 and has returned its
\* first raw draw.
C14_Witness ==
    /\ IntDone("new_inclusive")
    /\ call.ty = "i16"
    /\ call.low = TyMin("i16")
    /\ call.high = TyMax("i16")
    /\ sampler.range = 0
    /\ draws = 1
    /\ result.val = TyMin("i16")

\* C15: for every valid bound pair of an 8- or 16-bit type of width w,
\* ints_to_reject is below 2^(w-1), the stored zone is unsigned_max -
\* ints_to_reject with its top bit set, the range 0 sentinel included, and
\* its sign extension to the width of the raw draw is the maximum of that
\* width less ints_to_reject.
C15_ZoneTopBit ==
    (call.backend = "int" /\ sampler # NoSampler /\ call.ty \in NarrowTypes) =>
        LET w == Bits(call.ty)
            ints_to_reject == IntsToReject(call.ty, SampleRange(sampler))
        IN  /\ ints_to_reject < Pow2(w - 1)
            /\ AsUnsigned(w, sampler.zone) = UnsignedMax(call.ty) - ints_to_reject
            /\ AsUnsigned(w, sampler.zone) >= Pow2(w - 1)
            /\ SampleZone(sampler) = LargeMax(call.ty) - ints_to_reject

\* The narrow sampler with the most draws to reject: a range of one more
\* than half the type.
C15_Witness ==
    /\ IntBuilt
    /\ call.op = "new_inclusive"
    /\ call.ty = "i8"
    /\ call.low = TyMin("i8")
    /\ call.high = TyMin("i8") + Pow2(Bits8 - 1)
    /\ IntsToReject("i8", SampleRange(sampler)) = Pow2(Bits8 - 1) - 1
    /\ SampleZone(sampler) = LargeMax("i8") - (Pow2(Bits8 - 1) - 1)

\* Some raw draw ends the loop of sample on the integer sampler s.
SomeAccepted(s) == \E v \in Raw(s.ty) : UniformInt_sample(s, v).ok

\* Some pair of a seconds draw and a nanoseconds draw ends the loop of
\* sample on the Large mode duration sampler s.
SomePairAccepted(s) ==
    \E vs \in Raw("u64") : \E rs \in {UniformInt_sample(s.secs, vs)} :
        /\ rs.ok
        /\ \E vn \in Raw("u32") : \E rn \in {UniformInt_sample(NanoRange, vn)} :
             /\ rn.ok
             /\ LargeAccept(Duration_new(rs.val, rn.val), s.size)

\* C16: no rejection loop can run for ever on a source that produces every
\* raw value: every integer sampler built and every sample_single call
\* entered accepts at least one raw draw, and every Large mode duration
\* sampler accepts at least one pair of draws (a Small mode one, one draw).
C16_LoopsCanEnd ==
    /\ (sampler # NoSampler /\ call.backend = "int") => SomeAccepted(sampler)
    /\ IntSingle =>
         \E v \in Raw(call.ty) :
             UniformInt_sample_single(call.ty, call.low, call.high, v).ok
    /\ (sampler # NoSampler /\ call.backend = "duration") =>
         IF sampler.mode = "Large"
         THEN SomeAccepted(sampler.secs) /\ SomeAccepted(NanoRange)
                /\ SomePairAccepted(sampler)
         ELSE SomeAccepted(sampler.nanos)

\* A Large mode sample has returned on its third draw, after a redraw.
C16_Witness ==
    /\ pc = "done"
    /\ call.backend = "duration"
    /\ sampler.mode = "Large"
    /\ draws = 3
    /\ SomePairAccepted(sampler)

\* Some raw draw is refused by one pass of the loop of sample.
SomeRejected(s) == \E v \in Raw(s.ty) : ~UniformInt_sample(s, v).ok

\* A sample call on a sampler built by a constructor has returned.
SampleDone == pc = "done" /\ call.op \in {"new", "new_inclusive"}

\* C17 as claimed: no sample call on an integer, float or duration sampler
\* draws more than two raw values.
C17_AtMostTwoDraws ==
    call.op \in {"new", "new_inclusive"} => draws <= 2

\* C17, amended: a sample call draws at least one raw value; exactly one on
\* a float sampler and on an integer or Small mode duration sampler that
\* refuses no raw draw, one per pass of the rejection loop otherwise, and at
\* least two on a Large mode duration sampler.
C17_DrawsPerSample ==
    /\ (pc = "sampling" /\ call.op \in {"new", "new_inclusive"}) => draws >= 1
    /\ SampleDone =>
         CASE call.backend = "float" -> draws = 1
           [] call.backend = "int" ->
                /\ draws >= 1
                /\ draws > 1 => SomeRejected(sampler)
           [] call.backend = "duration" /\ sampler.mode = "Small" ->
                /\ draws >= 1
                /\ draws > 1 => SomeRejected(sampler.nanos)
           [] call.backend = "duration" /\ sampler.mode = "Large" -> draws >= 2
           [] OTHER -> FALSE

\* An integer sample has returned on its third draw, after two redraws.
C17_Witness ==
    /\ SampleDone
    /\ call.backend = "int"
    /\ SomeRejected(sampler)
    /\ draws = 3

\* sample_single(low, high) and sample on new(low, high) agree on the raw
\* draw v when both accept it.
SameWhenAccepted(ty, low, high, v) ==
    LET one == UniformInt_sample_single(ty, low, high, v)
        kept == UniformInt_sample(UniformInt_new(ty, low, high), v)
    IN  (one.ok /\ kept.ok) => one.val = kept.val

\* C18: for every integer type and every low < high, sample_single(low,
\* high) and sample on the sampler built by new(low, high) use the same
\* range, high - low, and return the same value for every raw draw both
\* accept: they differ only in the raw draws they refuse.
C18_SingleMatchesSample ==
    ((IntBuilt /\ call.op = "new") \/ IntSingle) =>
        /\ SampleRange(UniformInt_new(call.ty, call.low, call.high))
             = SingleRange(call.ty, call.low, call.high)
        /\ SingleRange(call.ty, call.low, call.high)
             = AsUnsigned(Bits(call.ty), call.high - call.low)
        /\ \A v \in Raw(call.ty) :
             SameWhenAccepted(call.ty, call.low, call.high, v)

\* sample_single on a wide type over three values: some raw draw is
\* accepted by both paths, with the top value for both, and some raw draw
\* is refused by sample_single and accepted by sample.
C18_Witness ==
    /\ IntSingle
    /\ call.ty = "i32"
    /\ call.low = -1
    /\ call.high = 2
    /\ \E v \in Raw("i32") :
         /\ UniformInt_sample_single("i32", -1, 2, v) = [ok |-> TRUE, val |-> 1]
         /\ UniformInt_sample(UniformInt_new("i32", -1, 2), v) = [ok |-> TRUE, val |-> 1]
    /\ \E v \in Raw("i32") :
         /\ ~UniformInt_sample_single("i32", -1, 2, v).ok
         /\ UniformInt_sample(UniformInt_new("i32", -1, 2), v).ok

====
